---- MODULE Spec2Model ----
(***************************************************************************)
(* QueryLens (app/main.py): a Streamlit script.  A user uploads a SQLite   *)
(* file, the script copies it to the fixed path temp_db.sqlite, reads its  *)
(* schema, echoes the typed question into a stub SQL query and runs that   *)
(* query on request.  Every user action reruns main() from the top.        *)
(*                                                                         *)
(* SQL text is modelled as a sequence of lexical tokens, a database file   *)
(* as its catalog (the rows of sqlite_master, in creation order).          *)
(***************************************************************************)
EXTENDS Integers, Sequences, FiniteSets, TLC

\* ------------------------------------------------------------------ bounds
MaxTextLen == 3     \* longest text handed to generate_query directly
MaxInputLen == 1    \* longest text typed into the single-line text_input
MaxRows == 6        \* largest row count of a table
MaxConns == 2       \* open connections of one session that are tracked

\* ------------------------------------------------------- program constants
Limit == 5          \* LIMIT 5 of the stub statement

\* Python's None, where an object is expected
None == [none |-> TRUE]

\* no exception
NoExc == "none"

\* ---------------------------------------------------------------- helpers
Min(a, b) == IF a < b THEN a ELSE b

Range(s) == {s[i] : i \in 1..Len(s)}

RECURSIVE SeqsUpTo(_, _)
SeqsUpTo(S, n) ==
    IF n = 0 THEN {<<>>}
    ELSE LET shorter == SeqsUpTo(S, n - 1)
         IN  shorter \cup {Append(t, x) : t \in {u \in shorter : Len(u) = n - 1}, x \in S}

\* ------------------------------------------------------------- SQL tokens
\* "DD" is the two dashes, "G" the words " Generated from: ", "NL" a line
\* break, "OC" the opener of a block comment, "SEMI" a semicolon, "w" any
\* ordinary word, "DROP" the words DROP TABLE table_name and "SELECT" the
\* words SELECT * FROM table_name LIMIT 5.
TextTokens == {"w", "NL", "DROP", "SEMI", "OC"}

LineTokens == TextTokens \ {"NL"}

\* str: every text generate_query accepts
AllTexts == SeqsUpTo(TextTokens, MaxTextLen)

\* what st.text_input delivers: one line of text ("" included)
InputTexts == SeqsUpTo(LineTokens, MaxInputLen)

\* ------------------------------------------------------ database contents
\* SQLite compares identifiers without regard to case.
Lower(w) == IF w = "TABLE_NAME" THEN "table_name" ELSE w

Col(n, t, pk) == [name |-> n, type |-> t, pk |-> pk]

\* A catalog row: name is the tokens SQLite's tokenizer reads from the raw
\* name (a name with a blank in it reads as two tokens).
Entry(k, n, c, r) == [kind |-> k, name |-> n, cols |-> c, rows |-> r]

RowCounts == {0, 1, Limit, MaxRows}

ColsA == <<Col("a", "TEXT", 0)>>

Users == Entry("table", <<"users">>,
               <<Col("id", "INTEGER", 1), Col("name", "TEXT", 0)>>, 2)

Orders == Entry("table", <<"orders">>,
                <<Col("a", "INT", 2), Col("b", "", 1), Col("c", "TEXT", 0)>>, 3)

MyTable == Entry("table", <<"my", "table">>, <<Col("id", "INTEGER", 1)>>, 1)

UsersIdx == Entry("index", <<"idx_users">>, <<>>, 0)

UsersView == Entry("view", <<"v_users">>, <<Col("name", "TEXT", 0)>>, 2)

\* the catalog rows whose name reads as table_name
StubNamed ==
    {Entry("table", <<"table_name">>, ColsA, r) : r \in RowCounts}
      \cup {Entry("table", <<"TABLE_NAME">>, ColsA, 1),
            Entry("view", <<"table_name">>, ColsA, 2)}

Db(cat) == [valid |-> TRUE, catalog |-> cat]

\* bytes that are not a SQLite database
BadFile == [valid |-> FALSE, catalog |-> <<>>]

Opt(e, on) == IF on THEN <<e>> ELSE <<>>

\* well-formed files: names are unique, an index has its table
AllDbs ==
    {Db(Opt(Users, u) \o Opt(UsersIdx, u /\ i) \o Opt(Orders, o) \o s
          \o Opt(MyTable, m) \o Opt(UsersView, u /\ v)) :
        u \in BOOLEAN, i \in BOOLEAN, o \in BOOLEAN, m \in BOOLEAN, v \in BOOLEAN,
        s \in {<<>>} \cup {<<e>> : e \in StubNamed}}

AllFiles == AllDbs \cup {BadFile}

\* ------------------------------------------------------- the SQLite engine
Return(v) == [ok |-> TRUE, value |-> v, exc |-> NoExc]

Raise(e) == [ok |-> FALSE, value |-> None, exc |-> e]

IsTableOrView(e) == e.kind \in {"table", "view"}

\* the catalog rows a one-token identifier resolves to
Resolve(file, word) ==
    SelectSeq(file.catalog,
              LAMBDA e : IsTableOrView(e) /\ Len(e.name) = 1
                           /\ Lower(e.name[1]) = Lower(word))

\* SELECT name FROM sqlite_master; without the WHERE clause
SqliteMasterAll(file) ==
    IF ~file.valid THEN Raise("DatabaseError")
    ELSE Return([i \in 1..Len(file.catalog) |-> <<file.catalog[i].name>>])

\* SELECT name FROM sqlite_master WHERE type='table';
SqliteMasterTables(file) ==
    IF ~file.valid THEN Raise("DatabaseError")
    ELSE LET rows == SelectSeq(file.catalog, LAMBDA e : e.kind = "table")
         IN  Return([i \in 1..Len(rows) |-> <<rows[i].name>>])

\* PRAGMA table_info(arg); with arg spliced in unquoted: the argument must
\* be one identifier.  A row is (cid, name, type, notnull, dflt_value, pk).
PragmaTableInfo(file, arg) ==
    IF ~file.valid THEN Raise("DatabaseError")
    ELSE IF Len(arg) # 1 THEN Raise("OperationalError")
    ELSE LET hit == Resolve(file, arg[1])
             cols == IF hit = <<>> THEN <<>> ELSE hit[1].cols
         IN  Return([i \in 1..Len(cols) |->
                        <<i - 1, cols[i].name, cols[i].type, 0, "NULL", cols[i].pk>>])

\* --------------------------------------------------------------- get_schema
\* {col[1]: {'type': col[2]} for col in columns}: a later row wins
ColumnsDict(columns) ==
    [n \in {columns[i][2] : i \in 1..Len(columns)} |->
        LET last == CHOOSE i \in 1..Len(columns) :
                        /\ columns[i][2] = n
                        /\ \A j \in 1..Len(columns) : columns[j][2] = n => j <= i
        IN  [type |-> columns[last][3]]]

\* [col[1] for col in columns if col[5] == 1]
PrimaryKeysFirstKeyOnly(columns) ==
    LET keyed == SelectSeq(columns, LAMBDA col : col[6] = 1)
    IN  [i \in 1..Len(keyed) |-> keyed[i][2]]

\* [col[1] for col in columns if col[5]]
PrimaryKeys(columns) ==
    LET keyed == SelectSeq(columns, LAMBDA col : col[6] # 0)
    IN  [i \in 1..Len(keyed) |-> keyed[i][2]]

EmptyDict == [x \in {} |-> None]

DictSet(d, k, v) == [x \in DOMAIN d \cup {k} |-> IF x = k THEN v ELSE d[x]]

RECURSIVE SchemaLoop(_, _, _)
SchemaLoop(file, tables, schema) ==
    IF tables = <<>> THEN Return(schema)
    ELSE LET table_name == Head(tables)[1]
             columns == PragmaTableInfo(file, table_name)
         IN  IF ~columns.ok THEN Raise(columns.exc)
             ELSE SchemaLoop(file, Tail(tables),
                      DictSet(schema, table_name,
                          [columns |-> ColumnsDict(columns.value),
                           primary_keys |-> PrimaryKeys(columns.value)]))

\* get_schema(conn), conn being a connection to a file with these contents
get_schema(file) ==
    LET tables == SqliteMasterTables(file)
    IN  IF ~tables.ok THEN Raise(tables.exc)
        ELSE SchemaLoop(file, tables.value, EmptyDict)

\* ----------------------------------------------------------- generate_query
Explanation == "This is a basic query that selects all columns from the specified table."

\* a generator that names the schema's tables in a second comment
generate_query_schema(user_input, schema) ==
    [query |-> <<"DD", "G">> \o user_input \o <<"NL", "SELECT", "SEMI">>
                  \o (IF DOMAIN schema = {} THEN <<>> ELSE <<"NL", "DD", "w">>),
     explanation |-> Explanation]

generate_query(user_input, schema) ==
    [query |-> <<"DD", "G">> \o user_input \o <<"NL", "SELECT", "SEMI">>,
     explanation |-> Explanation]

\* ------------------------------------------------------------ SQL comments
LexStep(mode, tok) ==
    CASE mode = "code" -> (IF tok = "DD" THEN "line"
                           ELSE IF tok = "OC" THEN "block" ELSE "code")
      [] mode = "line" -> (IF tok = "NL" THEN "code" ELSE "line")
      [] OTHER -> "block"

\* the lexer's mode after the first i tokens of sql
RECURSIVE ModeAfter(_, _)
ModeAfter(sql, i) ==
    IF i = 0 THEN "code" ELSE LexStep(ModeAfter(sql, i - 1), sql[i])

\* token i is part of a comment (the line break ending a comment included)
InComment(sql, i) ==
    \/ ModeAfter(sql, i - 1) # "code"
    \/ sql[i] \in {"DD", "OC"}

\* what is left to the parser: no comments, no white space
CodeTokens(sql) ==
    LET keep == {i \in 1..Len(sql) : ~InComment(sql, i) /\ sql[i] # "NL"}
        nth[k \in 0..Len(sql)] ==
            IF k = 0 THEN 0
            ELSE CHOOSE i \in keep : i > nth[k - 1] /\ \A j \in keep : j > nth[k - 1] => i <= j
    IN  [k \in 1..Cardinality(keep) |-> sql[nth[k]]]

\* the non-empty statements between semicolons
RECURSIVE Statements(_)
Statements(code) ==
    IF code = <<>> THEN <<>>
    ELSE LET cut == IF \E i \in 1..Len(code) : code[i] = "SEMI"
                    THEN CHOOSE i \in 1..Len(code) :
                            code[i] = "SEMI" /\ \A j \in 1..(i - 1) : code[j] # "SEMI"
                    ELSE Len(code) + 1
             first == SubSeq(code, 1, cut - 1)
             rest == Statements(SubSeq(code, cut + 1, Len(code)))
         IN  IF first = <<>> THEN rest ELSE <<first>> \o rest

\* ------------------------------------------------------- pd.read_sql_query
\* The outcome of pd.read_sql_query(sql, conn): the data frame's row count
\* or the exception, and the file as the call leaves it.
Outcome(ok, rows, exc, file) == [ok |-> ok, rows |-> rows, exc |-> exc, file |-> file]

DropTable(file, e) == Db(SelectSeq(file.catalog, LAMBDA x : x # e))

read_sql_query(sql, file) ==
    LET stmts == Statements(CodeTokens(sql))
    IN  IF ~file.valid THEN Outcome(FALSE, 0, "DatabaseError", file)
        ELSE IF Len(stmts) = 0 THEN Outcome(FALSE, 0, "TypeError", file)
        ELSE IF Len(stmts) > 1 THEN Outcome(FALSE, 0, "ProgrammingError", file)
        ELSE IF stmts[1] = <<"SELECT">> THEN
            LET hit == Resolve(file, "table_name")
            IN  IF hit = <<>> THEN Outcome(FALSE, 0, "DatabaseError", file)
                ELSE Outcome(TRUE, Min(Limit, hit[1].rows), NoExc, file)
        ELSE IF stmts[1] = <<"DROP">> THEN
            LET hit == Resolve(file, "table_name")
            IN  IF hit = <<>> \/ hit[1].kind # "table"
                THEN Outcome(FALSE, 0, "DatabaseError", file)
                \* DDL runs outside a transaction; the cursor has no
                \* description and pandas fails after the statement ran
                ELSE Outcome(FALSE, 0, "TypeError", DropTable(file, hit[1]))
        ELSE Outcome(FALSE, 0, "DatabaseError", file)

\* ------------------------------------------------------------ load_database
\* The bytes at temp_db.sqlite afterwards, and the connection returned.
\* opened with mode "xb": an existing temp file is kept as it is
load_database_keep(uploaded_file, temp) ==
    IF uploaded_file = None THEN [conn |-> None, temp |-> temp]
    ELSE [conn |-> [path |-> "temp_db.sqlite"],
          temp |-> IF temp = None THEN uploaded_file ELSE temp]

Connection == [path |-> "temp_db.sqlite"]

load_database(uploaded_file, temp) ==
    IF uploaded_file = None THEN [conn |-> None, temp |-> temp]
    ELSE [conn |-> Connection, temp |-> uploaded_file]

\* ------------------------------------------------------------------- state
Sessions == {1, 2}

VARIABLES
    active,     \* the browser sessions served by the process
    tempFile,   \* contents of temp_db.sqlite, None while it does not exist
    writer,     \* the session whose load_database wrote tempFile last, 0: none
    pc,         \* where each session's run of main() stands
    file,       \* value of the file_uploader widget
    text,       \* value of the text_input widget
    pressed,    \* the run was started by the Execute Query button
    conn,       \* the run's local variable conn
    schema,     \* the run's local variable schema
    result,     \* the run's local variable result
    shown,      \* what the run has put on the page
    df,         \* row count of the data frame on the page
    rendered,   \* widgets the run has created so far
    widgets,    \* widgets on the page when the last run ended
    garbage,    \* connections no longer referenced and not yet finalized
    lastUp,     \* the file the session uploaded last
    prevUp,     \* the file the session uploaded before that one
    readOf,     \* the session whose bytes get_schema read
    uText,      \* direct calls: the text under test
    uLoaded,    \* direct calls: the file as load_database wrote it
    uFile,      \* direct calls: the file behind the connection now
    uCall,      \* direct calls: the last call and what it returned
    uPrev,      \* direct calls: the call before
    uExec       \* direct calls: outcome of running the returned query

sessVars == <<active, tempFile, writer, pc, file, text, pressed, conn, schema,
              result, shown, df, rendered, widgets, garbage, lastUp, prevUp,
              readOf>>

unitVars == <<uText, uLoaded, uFile, uCall, uPrev, uExec>>

vars == <<sessVars, unitVars>>

\* connections of session s that are open: main() never calls conn.close()
OpenConns(s) == garbage[s] + (IF conn[s] # None THEN 1 ELSE 0)

\* files offered to the uploader in the session specifications
StubDb(e) == Db(<<Users, e>>)

SessionFiles ==
    {BadFile, Db(<<>>), Db(<<Users, UsersIdx>>), Db(<<Users, MyTable>>),
     StubDb(Entry("table", <<"table_name">>, ColsA, 0)),
     StubDb(Entry("table", <<"table_name">>, ColsA, 1)),
     Db(<<Entry("table", <<"table_name">>, ColsA, MaxRows)>>),
     StubDb(Entry("table", <<"TABLE_NAME">>, ColsA, 1)),
     StubDb(Entry("view", <<"table_name">>, ColsA, 2))}

ConcFiles ==
    {Db(<<Users, UsersIdx>>),
     Db(<<Entry("table", <<"table_name">>, ColsA, MaxRows)>>)}

ConcTexts == {<<>>, <<"w">>}

InitSessions(act) ==
    /\ active = act
    /\ tempFile = None
    /\ writer = 0
    /\ pc = [s \in Sessions |-> "idle"]
    /\ file = [s \in Sessions |-> None]
    /\ text = [s \in Sessions |-> <<>>]
    /\ pressed = [s \in Sessions |-> FALSE]
    /\ conn = [s \in Sessions |-> None]
    /\ schema = [s \in Sessions |-> None]
    /\ result = [s \in Sessions |-> None]
    /\ shown = [s \in Sessions |-> {"info"}]
    /\ df = [s \in Sessions |-> 0]
    /\ rendered = [s \in Sessions |-> {}]
    /\ widgets = [s \in Sessions |-> {"file_uploader"}]
    /\ garbage = [s \in Sessions |-> 0]
    /\ lastUp = [s \in Sessions |-> None]
    /\ prevUp = [s \in Sessions |-> None]
    /\ readOf = [s \in Sessions |-> 0]

InitUnit(t, f) ==
    /\ uText = t
    /\ uLoaded = f
    /\ uFile = f
    /\ uCall = None
    /\ uPrev = None
    /\ uExec = None

\* ------------------------------------------------ user actions (each reruns)
\* Streamlit reruns the script from the top with the widget values kept.
Rerun(s, press) ==
    /\ pc[s] = "idle"
    /\ garbage[s] < MaxConns
    /\ pc' = [pc EXCEPT ![s] = "main"]
    /\ pressed' = [pressed EXCEPT ![s] = press]
    /\ UNCHANGED <<active, tempFile, writer, conn, schema, result, shown, df,
                   rendered, widgets, garbage, readOf, unitVars>>

Upload(s, f) ==
    /\ f # file[s]
    /\ file' = [file EXCEPT ![s] = f]
    /\ lastUp' = [lastUp EXCEPT ![s] = f]
    /\ prevUp' = [prevUp EXCEPT ![s] = lastUp[s]]
    /\ Rerun(s, FALSE)
    /\ UNCHANGED text

RemoveFile(s) ==
    /\ file[s] # None
    /\ file' = [file EXCEPT ![s] = None]
    /\ Rerun(s, FALSE)
    /\ UNCHANGED <<text, lastUp, prevUp>>

EnterText(s, t) ==
    /\ "text_input" \in widgets[s]
    /\ t # text[s]
    /\ text' = [text EXCEPT ![s] = t]
    /\ Rerun(s, FALSE)
    /\ UNCHANGED <<file, lastUp, prevUp>>

PressExecute(s) ==
    /\ "button" \in widgets[s]
    /\ Rerun(s, TRUE)
    /\ UNCHANGED <<file, text, lastUp, prevUp>>

\* ------------------------------------------------------------- main(), steps
\* The run is over: its locals go out of scope, the page is what it drew; a
\* widget the run did not create loses its value.
EndRun(s, page, drawn) ==
    /\ pc' = [pc EXCEPT ![s] = "idle"]
    /\ shown' = [shown EXCEPT ![s] = page]
    /\ widgets' = [widgets EXCEPT ![s] = drawn]
    /\ rendered' = [rendered EXCEPT ![s] = {}]
    /\ text' = [text EXCEPT ![s] = IF "text_input" \in drawn THEN @ ELSE <<>>]
    /\ pressed' = [pressed EXCEPT ![s] = FALSE]
    /\ garbage' = [garbage EXCEPT ![s] = @ + (IF conn[s] # None THEN 1 ELSE 0)]
    /\ conn' = [conn EXCEPT ![s] = None]

\* lines 72-80 and 119-120: the uploader, then load_database
MainLoad(s) ==
    /\ pc[s] = "main"
    /\ schema' = [schema EXCEPT ![s] = None]
    /\ result' = [result EXCEPT ![s] = None]
    /\ df' = [df EXCEPT ![s] = 0]
    /\ readOf' = [readOf EXCEPT ![s] = 0]
    /\ IF file[s] # None
       THEN LET loaded == load_database(file[s], tempFile)
            IN  /\ tempFile' = loaded.temp
                /\ writer' = s
                /\ IF loaded.conn # None
                   THEN /\ conn' = [conn EXCEPT ![s] = loaded.conn]
                        /\ pc' = [pc EXCEPT ![s] = "schema"]
                        /\ shown' = [shown EXCEPT ![s] = {}]
                        /\ rendered' = [rendered EXCEPT ![s] = {"file_uploader"}]
                        /\ UNCHANGED <<widgets, text, pressed, garbage>>
                   ELSE EndRun(s, {"error_load"}, {"file_uploader"})
       ELSE /\ EndRun(s, {"info"}, {"file_uploader"})
            /\ UNCHANGED <<tempFile, writer>>
    /\ UNCHANGED <<active, file, lastUp, prevUp, unitVars>>

\* lines 82-88: get_schema reads the file through the connection; what it
\* raises leaves main() uncaught
MainSchema(s) ==
    /\ pc[s] = "schema"
    /\ LET got == get_schema(tempFile)
       IN  IF got.ok
           THEN /\ schema' = [schema EXCEPT ![s] = got.value]
                /\ readOf' = [readOf EXCEPT ![s] = writer]
                /\ shown' = [shown EXCEPT ![s] = @ \cup {"schema"}]
                /\ pc' = [pc EXCEPT ![s] = "input"]
                /\ UNCHANGED <<conn, rendered, widgets, text, pressed, garbage>>
           ELSE /\ EndRun(s, {"exception"}, rendered[s])
                /\ UNCHANGED <<schema, readOf>>
    /\ UNCHANGED <<active, tempFile, writer, file, result, df, lastUp, prevUp, unitVars>>

\* lines 91-105: the text input and, for a non-empty text, generate_query
MainInput(s) ==
    /\ pc[s] = "input"
    /\ IF text[s] # <<>>
       THEN /\ result' = [result EXCEPT ![s] = generate_query(text[s], schema[s])]
            /\ shown' = [shown EXCEPT ![s] = @ \cup {"query", "explanation"}]
            /\ rendered' = [rendered EXCEPT ![s] = @ \cup {"text_input"}]
            /\ pc' = [pc EXCEPT ![s] = "button"]
            /\ UNCHANGED <<conn, widgets, text, pressed, garbage>>
       ELSE /\ EndRun(s, shown[s], rendered[s] \cup {"text_input"})
            /\ UNCHANGED result
    /\ UNCHANGED <<active, tempFile, writer, file, schema, df, lastUp, prevUp, readOf, unitVars>>

\* lines 108-112 without the try/except of lines 109 and 113-114
MainButtonUncaught(s) ==
    /\ pc[s] = "button"
    /\ IF pressed[s]
       THEN LET run == read_sql_query(result[s].query, tempFile)
            IN  /\ tempFile' = run.file
                /\ df' = [df EXCEPT ![s] = run.rows]
                /\ IF run.ok
                   THEN EndRun(s, shown[s] \cup {"df"}, rendered[s] \cup {"button"})
                   ELSE EndRun(s, {"exception"}, rendered[s] \cup {"button"})
       ELSE /\ EndRun(s, shown[s], rendered[s] \cup {"button"})
            /\ UNCHANGED <<tempFile, df>>
    /\ UNCHANGED <<active, writer, file, schema, result, lastUp, prevUp, readOf, unitVars>>

\* lines 108-114: the button and, when it was pressed, the query
MainButton(s) ==
    /\ pc[s] = "button"
    /\ IF pressed[s]
       THEN LET run == read_sql_query(result[s].query, tempFile)
            IN  /\ tempFile' = run.file
                /\ df' = [df EXCEPT ![s] = run.rows]
                /\ EndRun(s, shown[s] \cup {IF run.ok THEN "df" ELSE "error_exec"},
                          rendered[s] \cup {"button"})
       ELSE /\ EndRun(s, shown[s], rendered[s] \cup {"button"})
            /\ UNCHANGED <<tempFile, df>>
    /\ UNCHANGED <<active, writer, file, schema, result, lastUp, prevUp, readOf, unitVars>>

\* a connection nothing refers to is closed when the interpreter finalizes it
Finalize(s) ==
    /\ garbage[s] > 0
    /\ garbage' = [garbage EXCEPT ![s] = @ - 1]
    /\ UNCHANGED <<active, tempFile, writer, pc, file, text, pressed, conn, schema,
                   result, shown, df, rendered, widgets, lastUp, prevUp, readOf,
                   unitVars>>

\* ---------------------------------------------------------- specifications
Init ==
    /\ InitSessions({1})
    /\ InitUnit(<<>>, None)

Next ==
    \/ \E s \in active, f \in SessionFiles : Upload(s, f)
    \/ \E s \in active : RemoveFile(s)
    \/ \E s \in active, t \in InputTexts : EnterText(s, t)
    \/ \E s \in active : PressExecute(s)
    \/ \E s \in active : MainLoad(s)
    \/ \E s \in active : MainSchema(s)
    \/ \E s \in active : MainInput(s)
    \/ \E s \in active : MainButton(s)
    \/ \E s \in active : Finalize(s)

Spec == Init /\ [][Next]_vars

ConcInit ==
    /\ InitSessions(Sessions)
    /\ InitUnit(<<>>, None)

ConcNext ==
    \/ \E s \in active, f \in ConcFiles : Upload(s, f)
    \/ \E s \in active : RemoveFile(s)
    \/ \E s \in active, t \in ConcTexts : EnterText(s, t)
    \/ \E s \in active : PressExecute(s)
    \/ \E s \in active : MainLoad(s)
    \/ \E s \in active : MainSchema(s)
    \/ \E s \in active : MainInput(s)
    \/ \E s \in active : MainButton(s)
    \/ \E s \in active : Finalize(s)

ConcSpec == ConcInit /\ [][ConcNext]_vars

\* ------------------------------------------- the functions, called directly
CallGetSchema(f) ==
    /\ uLoaded' = f
    /\ uFile' = f
    /\ uCall' = [fn |-> "get_schema", file |-> f, out |-> get_schema(f)]
    /\ uPrev' = None
    /\ uExec' = None
    /\ UNCHANGED <<uText, sessVars>>

SchemaInit ==
    /\ InitSessions({})
    /\ InitUnit(<<>>, None)

SchemaNext == \E f \in AllFiles : CallGetSchema(f)

SchemaSpec == SchemaInit /\ [][SchemaNext]_vars

\* files behind the connection when generate_query's result is executed
ExecFiles ==
    {Db(<<Users>>),
     Db(<<Users, Entry("table", <<"table_name">>, ColsA, MaxRows)>>),
     Db(<<Entry("view", <<"table_name">>, ColsA, 2)>>)}

\* schemas handed to generate_query
SchemaArgs == {get_schema(f).value : f \in {Db(<<>>), Db(<<Users>>), Db(<<Orders>>)}}

IsCall(c, fn) == c # None /\ c.fn = fn

CallGenerate(sch) ==
    /\ uCall' = [fn |-> "generate_query", text |-> uText, schema |-> sch,
                 out |-> generate_query(uText, sch)]
    /\ uPrev' = uCall
    /\ uExec' = None
    /\ UNCHANGED <<uText, uLoaded, uFile, sessVars>>

\* line 110 applied to what generate_query returned
CallExecute ==
    /\ IsCall(uCall, "generate_query")
    /\ uExec = None
    /\ LET run == read_sql_query(uCall.out.query, uFile)
       IN  /\ uExec' = [ok |-> run.ok, rows |-> run.rows, exc |-> run.exc]
           /\ uFile' = run.file
    /\ UNCHANGED <<uText, uLoaded, uCall, uPrev, sessVars>>

GenInit ==
    /\ InitSessions({})
    /\ \E t \in AllTexts, f \in ExecFiles : InitUnit(t, f)

GenNext ==
    \/ \E sch \in SchemaArgs : CallGenerate(sch)
    \/ CallExecute

GenSpec == GenInit /\ [][GenNext]_vars

\* ================================================================== claims
TablesOf(f) == {e \in Range(f.catalog) : e.kind = "table"}

TableNames(f) == {e.name : e \in TablesOf(f)}

KeyedCols(e) == SelectSeq(e.cols, LAMBDA c : c.pk # 0)

\* the declared columns of a catalog row, as the Schema data model has them
DeclaredColumns(e) ==
    [n \in {e.cols[i].name : i \in 1..Len(e.cols)} |->
        [type |-> (CHOOSE c \in Range(e.cols) : c.name = n).type]]

DeclaredSchema(f) ==
    [n \in TableNames(f) |->
        LET e == CHOOSE x \in TablesOf(f) : x.name = n
        IN  [columns |-> DeclaredColumns(e),
             primary_keys |-> [i \in 1..Len(KeyedCols(e)) |-> KeyedCols(e)[i].name]]]

\* a table, or a view, that FROM table_name resolves to
NamedStub(f) ==
    \E e \in Range(f.catalog) :
        /\ e.kind \in {"table", "view"}
        /\ Len(e.name) = 1
        /\ Lower(e.name[1]) = "table_name"

ExactStubTables(f) == {e \in TablesOf(f) : e.name = <<"table_name">>}

\* C1: for every well-formed file get_schema returns one entry per catalog
\* row of type table, each with exactly the declared columns and types, for
\* every legal table name.
C1_SchemaMatchesCatalog ==
    IsCall(uCall, "get_schema") /\ uCall.file.valid =>
        /\ uCall.out.ok
        /\ DOMAIN uCall.out.value = TableNames(uCall.file)
        /\ \A e \in TablesOf(uCall.file) :
              uCall.out.value[e.name].columns = DeclaredColumns(e)

\* C2: in every schema get_schema returns, primary_keys is the columns with
\* a non-zero key-order field in declaration order: the one column of a
\* single-column key, empty without a key, and always a part of columns.
C2_PrimaryKeys ==
    IsCall(uCall, "get_schema") /\ uCall.out.ok =>
        \A n \in DOMAIN uCall.out.value :
            LET e == CHOOSE x \in TablesOf(uCall.file) : x.name = n
                t == uCall.out.value[n]
                keyed == KeyedCols(e)
            IN  /\ t.primary_keys = [i \in 1..Len(keyed) |-> keyed[i].name]
                /\ (Len(keyed) = 0 => t.primary_keys = <<>>)
                /\ (Len(keyed) = 1 => t.primary_keys = <<keyed[1].name>>)
                /\ Range(t.primary_keys) \subseteq DOMAIN t.columns

\* a returned schema with a two-column key, a one-column key and no key
C2_Witness ==
    /\ IsCall(uCall, "get_schema")
    /\ uCall.out.ok
    /\ {<<"orders">>, <<"users">>, <<"table_name">>} \subseteq DOMAIN uCall.out.value
    /\ Len(uCall.out.value[<<"orders">>].primary_keys) = 2
    /\ uCall.out.value[<<"table_name">>].primary_keys = <<>>

\* C3: the query contains the input text verbatim, all of it inside the
\* comment, followed by the fixed statement.
C3_TextInsideComment ==
    IsCall(uCall, "generate_query") =>
        LET q == uCall.out.query
            n == Len(uCall.text)
        IN  /\ Len(q) = n + 5
            /\ SubSeq(q, 3, n + 2) = uCall.text
            /\ \A i \in 3..(n + 2) : InComment(q, i)
            /\ SubSeq(q, n + 3, n + 5) = <<"NL", "SELECT", "SEMI">>

\* C4: generate_query returns the same pair for the same text whatever the
\* schema and the calls before, its explanation is one constant, and a call
\* leaves the schema, the connection and the temp file alone.
C4_SameResult ==
    IsCall(uCall, "generate_query") =>
        /\ uCall.out.explanation
             = "This is a basic query that selects all columns from the specified table."
        /\ (IsCall(uPrev, "generate_query") /\ uPrev.text = uCall.text
               => uPrev.out = uCall.out)

C4_DeterministicPure ==
    /\ []C4_SameResult
    /\ [][(\E sch \in SchemaArgs : CallGenerate(sch))
             => UNCHANGED <<uFile, uLoaded, tempFile, conn, schema>>]_vars

\* two calls in a row with the same text and different schemas
C4_Witness ==
    /\ IsCall(uCall, "generate_query")
    /\ IsCall(uPrev, "generate_query")
    /\ uPrev.text = uCall.text
    /\ uPrev.schema # uCall.schema
    /\ uCall.text # <<>>

\* C10: the returned query is a comment and one SELECT statement and nothing
\* else, so executing it leaves the loaded database as uploaded.
C10_OnlySelect ==
    /\ IsCall(uCall, "generate_query")
          => Statements(CodeTokens(uCall.out.query)) = <<<<"SELECT">>>>
    /\ uLoaded # None => uFile = uLoaded

\* the step of session s that ends a run started by Execute Query
ExecuteStep(s) == pc[s] = "button" /\ pressed[s] /\ pc'[s] = "idle"

ExecuteSucceeds(s, rows) ==
    /\ "df" \in shown'[s]
    /\ "error_exec" \notin shown'[s]
    /\ df'[s] = Min(5, rows)
    /\ df'[s] \in 1..5

ExecuteFailsInline(s) ==
    /\ "error_exec" \in shown'[s]
    /\ "df" \notin shown'[s]
    /\ "exception" \notin shown'[s]
    /\ {"file_uploader", "text_input", "button"} \subseteq widgets'[s]

\* C5 as stated: with a table named exactly table_name of at least one row
\* the execution shows min(5, rows) rows; without a table named table_name
\* it fails with an inline message and the session stays usable.
C5_ExecuteStub ==
    [][\A s \in active : ExecuteStep(s) =>
          /\ \A e \in ExactStubTables(tempFile) : e.rows >= 1 => ExecuteSucceeds(s, e.rows)
          /\ (ExactStubTables(tempFile) = {} => ExecuteFailsInline(s))]_vars

\* C5, amended: the execution fails inline when FROM table_name resolves to
\* nothing, neither a table nor a view, names compared without case.
C5_ExecuteStubResolved ==
    [][\A s \in active : ExecuteStep(s) =>
          /\ \A e \in ExactStubTables(tempFile) : e.rows >= 1 => ExecuteSucceeds(s, e.rows)
          /\ (~NamedStub(tempFile) => ExecuteFailsInline(s))]_vars

\* a run that executed the stub on a database without table_name has ended
C5_Witness ==
    \E s \in active :
        /\ pc[s] = "idle"
        /\ "error_exec" \in shown[s]
        /\ tempFile # None
        /\ ~NamedStub(tempFile)

\* C6: in one session the temp file holds the bytes of the last upload, the
\* schema shown is that file's, and the query is executed against it.
C6_LastUploadOnly ==
    \A s \in active : pc[s] # "main" =>
        /\ (lastUp[s] # None => tempFile = lastUp[s])
        /\ (schema[s] # None =>
               /\ schema[s] = DeclaredSchema(lastUp[s])
               /\ (prevUp[s] # None =>
                     \A n \in TableNames(prevUp[s]) \ TableNames(lastUp[s]) :
                         n \notin DOMAIN schema[s]))
        /\ ("df" \in shown[s] =>
               \E e \in Range(lastUp[s].catalog) :
                   /\ e.kind \in {"table", "view"}
                   /\ Len(e.name) = 1 /\ Lower(e.name[1]) = "table_name"
                   /\ df[s] = Min(5, e.rows))

\* after a second upload that lacks a table of the first, the query was run
C6_Witness ==
    \E s \in active :
        /\ pc[s] = "idle"
        /\ prevUp[s] # None
        /\ TableNames(prevUp[s]) \ TableNames(lastUp[s]) # {}
        /\ schema[s] # None
        /\ "df" \in shown[s]

\* C7: a load failure (no file, or a file that is no SQLite database) ends
\* in a blocking message, the invalid file in 'Error loading database':
\* no schema, no text input, no query, no uncaught exception.
C7_LoadFailureReported ==
    \A s \in active : pc[s] = "idle" =>
        /\ (file[s] = None => shown[s] = {"info"} /\ "text_input" \notin widgets[s])
        /\ (file[s] # None /\ ~file[s].valid =>
               /\ shown[s] = {"error_load"}
               /\ schema[s] = None
               /\ result[s] = None
               /\ "text_input" \notin widgets[s])

\* C8: a session whose schema is not that of its own upload has read bytes
\* that another session wrote to the shared path.
C8_ForeignSchemaIsRace ==
    \A s \in active : pc[s] # "main" /\ schema[s] # None =>
        \/ schema[s] = DeclaredSchema(lastUp[s])
        \/ readOf[s] \in active \ {s}

\* A wrote, B overwrote, A's get_schema read B's tables
C8_Witness ==
    \E a \in active, b \in active :
        /\ a # b
        /\ schema[a] # None
        /\ pc[a] # "main"
        /\ readOf[a] = b
        /\ schema[a] # DeclaredSchema(lastUp[a])
        /\ schema[a] = DeclaredSchema(lastUp[b])

\* C9: a session never has more than one open connection.
C9_SingleConnection == \A s \in active : OpenConns(s) <= 1

====
